---- MODULE Spec2Model ----
(***************************************************************************)
(* GoMatchEngine (fintech-lab/phase2-order-engine): the order gateway, the *)
(* per-symbol order books (two binary heaps with lazy deletion) and the    *)
(* trade log.  Prices are integer ticks.  An order object is identified by *)
(* its ID; the queues hold IDs (the Go heaps hold *Order pointers), so a   *)
(* status or fill written through one reference is seen through all.       *)
(***************************************************************************)
EXTENDS Integers, Sequences, FiniteSets, TLC

\* ------------------------------------------------------------------ bounds
MaxSubmits == 3
MaxPrice == 2
MaxQty == 2
MaxTime == 2
MaxObjects == 1
MaxCalls == 4

\* ------------------------------------------------- enumerations (order.go)
Buy == "BUY"
Sell == "SELL"
Limit == "LIMIT"
Market == "MARKET"
IOC == "IOC"
StatusOpen == "OPEN"
StatusPartial == "PARTIAL"
StatusFilled == "FILLED"
StatusCancelled == "CANCELLED"
StatusRejected == "REJECTED"

\* Fat-finger guard of validateOrder.
MaxLimitPrice == 1000000

\* Symbols registered at construction (newTestGateway).
Symbols == {"AAPL", "MSFT"}

VARIABLES
  orders,          \* the order objects that reached a book, indexed by ID
  bids,            \* bids[s]: the BidHeap array of book s (order IDs)
  asks,            \* asks[s]: the AskHeap array of book s (order IDs)
  tradeLog,        \* TradeLog.trades
  globalTradeSeq,  \* the trade id counter
  submits,         \* accepted Submit calls so far (bounds the run)
  last,            \* the last call and what it returned
  globalOrderSeq,  \* the order id counter
  calls,           \* calls[p]: the nextOrderID/nextTradeID call of caller p
  returned,        \* the id-allocator calls that returned, in return order
  logAttached,     \* gw.log # nil
  threads,         \* threads[t]: the call goroutine t is in
  mu               \* mu[s]: the writer holding the lock of book s, or Free

vars == <<orders, bids, asks, tradeLog, globalTradeSeq, submits, last,
          globalOrderSeq, calls, returned, logAttached, threads, mu>>

\* Goroutines that call Gateway.Submit concurrently.
Threads == {"t1", "t2"}

\* A goroutine that calls OrderBook.Spread.
Readers == {"r1"}

\* A goroutine outside any call.
NoCall == [pc |-> "idle", order |-> 0, symbol |-> "", trades |-> <<>>,
           snap |-> <<>>, start |-> <<>>]

\* sync.RWMutex with no holder.
Free == "free"

\* ------------------------------------------------------ identifier counters
\* Goroutines that call the allocators concurrently.
Callers == {"g1", "g2"}

\* A caller that is in no allocator call.
Idle == [pc |-> "idle", counter |-> "", val |-> 0, seen |-> 0]

\* Mutant of AddUint64: an increment of a counter that is already positive
\* is lost.
AddUint64Lost(v, delta) == IF v > 0 THEN v ELSE v + delta

\* atomic.AddUint64: one indivisible read-add-write, returning the new value
\* (counters stay far below 2^64 here).
AddUint64(v, delta) == v + delta

\* ------------------------------------------------------------ Order methods
Remaining(o) == o.Quantity - o.Filled

\* Mutant of IsFilled: any fill counts as a complete fill.
IsFilledAnyFill(o) == o.Filled > 0

IsFilled(o) == o.Filled >= o.Quantity

\* Mutant of IsActive: every order counts as active.
IsActiveAlways(o) == TRUE

IsActive(o) == o.Status = StatusOpen \/ o.Status = StatusPartial

\* NewLimitOrder / NewMarketOrder, and the same object with Side, Type or
\* Timestamp set by the caller (IOC has no factory; the tests set Timestamp).
NewOrder(id, symbol, side, type, price, qty, ts) ==
  [ID |-> id, Symbol |-> symbol, Side |-> side, Type |-> type,
   Status |-> StatusOpen, Price |-> price, Quantity |-> qty, Filled |-> 0,
   Timestamp |-> ts]

min64(a, b) == IF a < b THEN a ELSE b

\* ------------------------------------------------------------------- Trade
\* Mutant of newTrade: the two order ids are exchanged.
newTradeSwapped(seq, symbol, buyID, sellID, price, qty, ts) ==
  [ID |-> seq + 1, Symbol |-> symbol, BuyOrderID |-> sellID,
   SellOrderID |-> buyID, Price |-> price, Quantity |-> qty, Timestamp |-> ts]

newTrade(seq, symbol, buyID, sellID, price, qty, ts) ==
  [ID |-> seq + 1, Symbol |-> symbol, BuyOrderID |-> buyID,
   SellOrderID |-> sellID, Price |-> price, Quantity |-> qty, Timestamp |-> ts]

\* ------------------------------------------------------- heaps of order IDs
\* ord is the memory of order objects; h a heap array; i, j positions (1-based).

\* Mutant of BidLess: at equal price the later timestamp comes first.
BidLessLifo(ord, h, i, j) ==
  IF ord[h[i]].Price # ord[h[j]].Price
    THEN ord[h[i]].Price > ord[h[j]].Price
    ELSE ord[h[i]].Timestamp > ord[h[j]].Timestamp

BidLess(ord, h, i, j) ==
  IF ord[h[i]].Price # ord[h[j]].Price
    THEN ord[h[i]].Price > ord[h[j]].Price
    ELSE ord[h[i]].Timestamp < ord[h[j]].Timestamp

\* Mutant of AskLess: the higher ask comes first.
AskLessHighFirst(ord, h, i, j) ==
  IF ord[h[i]].Price # ord[h[j]].Price
    THEN ord[h[i]].Price > ord[h[j]].Price
    ELSE ord[h[i]].Timestamp < ord[h[j]].Timestamp

AskLess(ord, h, i, j) ==
  IF ord[h[i]].Price # ord[h[j]].Price
    THEN ord[h[i]].Price < ord[h[j]].Price
    ELSE ord[h[i]].Timestamp < ord[h[j]].Timestamp

\* book is "bids" or "asks": the heap.Interface the call dispatches on.
Less(book, ord, h, i, j) ==
  IF book = "bids" THEN BidLess(ord, h, i, j) ELSE AskLess(ord, h, i, j)

Swap(h, i, j) == [h EXCEPT ![i] = h[j], ![j] = h[i]]

\* container/heap.up: sift position j towards the root.
RECURSIVE up(_, _, _, _)
up(book, ord, h, j) ==
  IF j = 1 THEN h
  ELSE LET i == j \div 2 IN
       IF ~Less(book, ord, h, j, i) THEN h
       ELSE up(book, ord, Swap(h, i, j), i)

\* container/heap.down: sift position i down within the first n entries.
RECURSIVE down(_, _, _, _, _)
down(book, ord, h, i, n) ==
  LET j1 == 2 * i IN
  IF j1 > n THEN h
  ELSE LET j == IF j1 + 1 <= n /\ Less(book, ord, h, j1 + 1, j1)
                  THEN j1 + 1 ELSE j1
       IN IF ~Less(book, ord, h, j, i) THEN h
          ELSE down(book, ord, Swap(h, i, j), j, n)

\* heap.Push: append, then sift up.
HeapPush(book, ord, h, x) ==
  up(book, ord, Append(h, x), Len(h) + 1)

\* heap.Pop: swap root and last, sift down within the rest, drop the last.
HeapPop(book, ord, h) ==
  LET n == Len(h) IN
  SubSeq(down(book, ord, Swap(h, 1, n), 1, n - 1), 1, n - 1)

\* -------------------------------------------------------------- OrderBook
\* w is what one Submit or Cancel on book `symbol` can touch: the order
\* objects (ord), the two heap arrays of the book and the trade id counter.

\* Mutant of buyGate: a buy at exactly the best ask does not match either.
buyGateStrict(incoming, bestAsk) ==
  incoming.Type = Limit /\ incoming.Price <= bestAsk.Price

\* Mutant of buyGate: the gate also stops a MARKET buy, whose price is 0.
buyGateAnyType(incoming, bestAsk) == incoming.Price < bestAsk.Price

\* Mutant of buyGate: no price gate.
buyGateOff(incoming, bestAsk) == FALSE

\* Price gate of matchBuy: a LIMIT buy below the best ask stops matching.
buyGate(incoming, bestAsk) ==
  incoming.Type = Limit /\ incoming.Price < bestAsk.Price

\* Mutant of sellGate: a sell at exactly the best bid does not match either.
sellGateStrict(incoming, bestBid) ==
  incoming.Type = Limit /\ incoming.Price >= bestBid.Price

\* Price gate of matchSell: a LIMIT sell above the best bid stops matching.
sellGate(incoming, bestBid) ==
  incoming.Type = Limit /\ incoming.Price > bestBid.Price

\* Mutant of execQty: the whole remainder of the incoming order.
execQtyNoMin(incoming, resting) == Remaining(incoming)

\* Mutant of execQty: a match executes one unit at a time.
execQtyOneLot(incoming, resting) ==
  min64(1, min64(Remaining(incoming), Remaining(resting)))

\* qty := min64(incoming.Remaining(), resting.Remaining())
execQty(incoming, resting) ==
  min64(Remaining(incoming), Remaining(resting))

\* Mutant of execPrice: the aggressive order's price.
execPriceIncoming(incoming, resting) == incoming.Price

\* execPrice := resting.Price (passive order pricing rule)
execPrice(incoming, resting) == resting.Price

\* Mutant of applyFill: the resting order's fill is forgotten.
applyFillIncomingOnly(ord, incoming, resting, qty) ==
  [ord EXCEPT ![incoming].Filled = @ + qty]

\* incoming.Filled += qty; resting.Filled += qty
applyFill(ord, incoming, resting, qty) ==
  LET ord1 == [ord EXCEPT ![incoming].Filled = @ + qty]
  IN [ord1 EXCEPT ![resting].Filled = @ + qty]

\* Mutant of finalizeOrder: the residual of a MARKET order rests like a
\* LIMIT residual.
finalizeOrderMarketRests(w, o, book) ==
  IF IsFilled(w.ord[o])
    THEN [w EXCEPT !.ord[o].Status = StatusFilled]
  ELSE IF w.ord[o].Type = IOC
    THEN [w EXCEPT !.ord[o].Status = StatusCancelled]
  ELSE IF Remaining(w.ord[o]) > 0
    THEN LET w1 == IF w.ord[o].Filled > 0
                     THEN [w EXCEPT !.ord[o].Status = StatusPartial]
                     ELSE w
         IN IF book = "bids"
              THEN [w1 EXCEPT !.bids = HeapPush("bids", w1.ord, w1.bids, o)]
              ELSE [w1 EXCEPT !.asks = HeapPush("asks", w1.ord, w1.asks, o)]
  ELSE w

\* Mutant of finalizeOrder: the LIMIT residual gets its status but is not
\* pushed on the heap.
finalizeOrderNoPush(w, o, book) ==
  IF IsFilled(w.ord[o])
    THEN [w EXCEPT !.ord[o].Status = StatusFilled]
  ELSE IF w.ord[o].Type = IOC
    THEN [w EXCEPT !.ord[o].Status = StatusCancelled]
  ELSE IF w.ord[o].Type = Market /\ Remaining(w.ord[o]) > 0
    THEN [w EXCEPT !.ord[o].Status = StatusCancelled]
  ELSE IF w.ord[o].Type = Limit /\ Remaining(w.ord[o]) > 0
    THEN IF w.ord[o].Filled > 0
           THEN [w EXCEPT !.ord[o].Status = StatusPartial]
           ELSE w
  ELSE w

\* finalizeOrder: final status of the incoming order o; a LIMIT residual is
\* pushed on the heap `book` of its own side.
finalizeOrder(w, o, book) ==
  IF IsFilled(w.ord[o])
    THEN [w EXCEPT !.ord[o].Status = StatusFilled]
  ELSE IF w.ord[o].Type = IOC
    THEN [w EXCEPT !.ord[o].Status = StatusCancelled]
  ELSE IF w.ord[o].Type = Market /\ Remaining(w.ord[o]) > 0
    THEN [w EXCEPT !.ord[o].Status = StatusCancelled]
  ELSE IF w.ord[o].Type = Limit /\ Remaining(w.ord[o]) > 0
    THEN LET w1 == IF w.ord[o].Filled > 0
                     THEN [w EXCEPT !.ord[o].Status = StatusPartial]
                     ELSE w
         IN IF book = "bids"
              THEN [w1 EXCEPT !.bids = HeapPush("bids", w1.ord, w1.bids, o)]
              ELSE [w1 EXCEPT !.asks = HeapPush("asks", w1.ord, w1.asks, o)]
  ELSE w

\* The loop of matchBuy; r = [w, trades, iters], iters the number of times
\* the loop body was entered.
RECURSIVE matchBuyLoop(_, _, _)
matchBuyLoop(symbol, r, incoming) ==
  LET w == r.w IN
  IF ~(Len(w.asks) > 0 /\ Remaining(w.ord[incoming]) > 0) THEN r
  ELSE LET bestAsk == w.asks[1] IN
    IF ~IsActive(w.ord[bestAsk])
      THEN matchBuyLoop(symbol,
             [r EXCEPT !.w.asks = HeapPop("asks", w.ord, w.asks),
                        !.iters = @ + 1], incoming)
    ELSE IF buyGate(w.ord[incoming], w.ord[bestAsk])
      THEN [r EXCEPT !.iters = @ + 1]
    ELSE
      LET qty == execQty(w.ord[incoming], w.ord[bestAsk])
          price == execPrice(w.ord[incoming], w.ord[bestAsk])
          trade == newTrade(w.seq, symbol, incoming, bestAsk, price, qty,
                            w.ord[incoming].Timestamp)
          ord1 == applyFill(w.ord, incoming, bestAsk, qty)
          w1 == IF IsFilled(ord1[bestAsk])
                  THEN [w EXCEPT
                          !.ord = [ord1 EXCEPT ![bestAsk].Status = StatusFilled],
                          !.asks = HeapPop("asks", ord1, w.asks),
                          !.seq = @ + 1]
                  ELSE [w EXCEPT
                          !.ord = [ord1 EXCEPT ![bestAsk].Status = StatusPartial],
                          !.seq = @ + 1]
      IN matchBuyLoop(symbol,
           [w |-> w1, trades |-> Append(r.trades, trade),
            iters |-> r.iters + 1], incoming)

matchBuy(symbol, w, incoming) ==
  LET r == matchBuyLoop(symbol, [w |-> w, trades |-> <<>>, iters |-> 0],
                        incoming)
  IN [w |-> finalizeOrder(r.w, incoming, "bids"), trades |-> r.trades,
      iters |-> r.iters]

\* The loop of matchSell; r = [w, trades, iters].
RECURSIVE matchSellLoop(_, _, _)
matchSellLoop(symbol, r, incoming) ==
  LET w == r.w IN
  IF ~(Len(w.bids) > 0 /\ Remaining(w.ord[incoming]) > 0) THEN r
  ELSE LET bestBid == w.bids[1] IN
    IF ~IsActive(w.ord[bestBid])
      THEN matchSellLoop(symbol,
             [r EXCEPT !.w.bids = HeapPop("bids", w.ord, w.bids),
                        !.iters = @ + 1], incoming)
    ELSE IF sellGate(w.ord[incoming], w.ord[bestBid])
      THEN [r EXCEPT !.iters = @ + 1]
    ELSE
      LET qty == execQty(w.ord[incoming], w.ord[bestBid])
          price == execPrice(w.ord[incoming], w.ord[bestBid])
          trade == newTrade(w.seq, symbol, bestBid, incoming, price, qty,
                            w.ord[incoming].Timestamp)
          ord1 == applyFill(w.ord, incoming, bestBid, qty)
          w1 == IF IsFilled(ord1[bestBid])
                  THEN [w EXCEPT
                          !.ord = [ord1 EXCEPT ![bestBid].Status = StatusFilled],
                          !.bids = HeapPop("bids", ord1, w.bids),
                          !.seq = @ + 1]
                  ELSE [w EXCEPT
                          !.ord = [ord1 EXCEPT ![bestBid].Status = StatusPartial],
                          !.seq = @ + 1]
      IN matchSellLoop(symbol,
           [w |-> w1, trades |-> Append(r.trades, trade),
            iters |-> r.iters + 1], incoming)

matchSell(symbol, w, incoming) ==
  LET r == matchSellLoop(symbol, [w |-> w, trades |-> <<>>, iters |-> 0],
                         incoming)
  IN [w |-> finalizeOrder(r.w, incoming, "asks"), trades |-> r.trades,
      iters |-> r.iters]

\* OrderBook.Submit -> match: dispatch on the side of the incoming order.
BookSubmit(symbol, w, incoming) ==
  IF w.ord[incoming].Side = Buy THEN matchBuy(symbol, w, incoming)
  ELSE IF w.ord[incoming].Side = Sell THEN matchSell(symbol, w, incoming)
  ELSE [w |-> w, trades |-> <<>>, iters |-> 0]

\* Mutant of Cancel: the ask queue is not searched.
CancelBidsOnly(w, orderID) ==
  IF \E i \in 1 .. Len(w.bids) :
       w.ord[w.bids[i]].ID = orderID /\ IsActive(w.ord[w.bids[i]])
    THEN [w |-> [w EXCEPT !.ord[orderID].Status = StatusCancelled], ok |-> TRUE]
  ELSE [w |-> w, ok |-> FALSE]

\* Mutant of Cancel: an entry is cancelled whatever its status.
CancelAnyStatus(w, orderID) ==
  IF \E i \in 1 .. Len(w.bids) : w.ord[w.bids[i]].ID = orderID
    THEN [w |-> [w EXCEPT !.ord[orderID].Status = StatusCancelled], ok |-> TRUE]
  ELSE IF \E i \in 1 .. Len(w.asks) : w.ord[w.asks[i]].ID = orderID
    THEN [w |-> [w EXCEPT !.ord[orderID].Status = StatusCancelled], ok |-> TRUE]
  ELSE [w |-> w, ok |-> FALSE]

\* OrderBook.Cancel: the first active entry with that ID, bids before asks.
Cancel(w, orderID) ==
  IF \E i \in 1 .. Len(w.bids) :
       w.ord[w.bids[i]].ID = orderID /\ IsActive(w.ord[w.bids[i]])
    THEN [w |-> [w EXCEPT !.ord[orderID].Status = StatusCancelled], ok |-> TRUE]
  ELSE IF \E i \in 1 .. Len(w.asks) :
       w.ord[w.asks[i]].ID = orderID /\ IsActive(w.ord[w.asks[i]])
    THEN [w |-> [w EXCEPT !.ord[orderID].Status = StatusCancelled], ok |-> TRUE]
  ELSE [w |-> w, ok |-> FALSE]

\* BestBid / BestAsk: the head of the heap when it is active; [ok, price].
BestBid(ord, h) ==
  IF Len(h) > 0 /\ IsActive(ord[h[1]])
    THEN [ok |-> TRUE, price |-> ord[h[1]].Price]
    ELSE [ok |-> FALSE, price |-> 0]

BestAsk(ord, h) ==
  IF Len(h) > 0 /\ IsActive(ord[h[1]])
    THEN [ok |-> TRUE, price |-> ord[h[1]].Price]
    ELSE [ok |-> FALSE, price |-> 0]

\* Mutant of Spread: one present side is enough.
SpreadOneSided(ord, bidHeap, askHeap) ==
  LET bid == BestBid(ord, bidHeap)
      ask == BestAsk(ord, askHeap)
  IN IF ~bid.ok /\ ~ask.ok THEN [ok |-> FALSE, value |-> 0]
     ELSE [ok |-> TRUE, value |-> ask.price - bid.price]

\* Spread: best ask minus best bid when both are reported; [ok, value].
Spread(ord, bidHeap, askHeap) ==
  LET bid == BestBid(ord, bidHeap)
      ask == BestAsk(ord, askHeap)
  IN IF ~bid.ok \/ ~ask.ok THEN [ok |-> FALSE, value |-> 0]
     ELSE [ok |-> TRUE, value |-> ask.price - bid.price]

\* Depth: the number of active entries of a heap array.
RECURSIVE Depth(_, _)
Depth(ord, h) ==
  IF h = <<>> THEN 0
  ELSE (IF IsActive(ord[Head(h)]) THEN 1 ELSE 0) + Depth(ord, Tail(h))

\* Mutant of ReadTop: the readers first remove an inactive head of the bid
\* queue.
ReadTopCleaning(w) ==
  LET w1 == IF Len(w.bids) > 0 /\ ~IsActive(w.ord[w.bids[1]])
              THEN [w EXCEPT !.bids = HeapPop("bids", w.ord, w.bids)]
              ELSE w
  IN [w |-> w1,
      bid |-> BestBid(w1.ord, w1.bids), ask |-> BestAsk(w1.ord, w1.asks),
      spread |-> Spread(w1.ord, w1.bids, w1.asks),
      bidCount |-> Depth(w1.ord, w1.bids), askCount |-> Depth(w1.ord, w1.asks)]

\* The four read operations called one after the other on a book: what they
\* return and the book as they leave it (none of them writes a field).
ReadTop(w) ==
  [w |-> w,
   bid |-> BestBid(w.ord, w.bids), ask |-> BestAsk(w.ord, w.asks),
   spread |-> Spread(w.ord, w.bids, w.asks),
   bidCount |-> Depth(w.ord, w.bids), askCount |-> Depth(w.ord, w.asks)]

\* ---------------------------------------------------------------- Gateway
\* Error values: NoError is Go's nil error.
NoError == "nil"
ErrUnsupported == "symbole non supporte"
ErrNotFound == "ordre non trouve ou deja inactif"

\* A nil *Order: order pointers are IDs, and no order has ID 0.
NilOrder == 0

\* Dereferencing a nil *Order: the run-time panic that ends the program.
ErrPanic == "panic: nil pointer dereference"

\* Mutant of validateOrder: a LIMIT price equal to the ceiling is refused.
validateOrderCeilingExcluded(ord, o) ==
  IF o = NilOrder THEN "order"
  ELSE IF ord[o].Symbol = "" THEN "symbol"
  ELSE IF ord[o].Side # Buy /\ ord[o].Side # Sell THEN "side"
  ELSE IF ord[o].Type # Limit /\ ord[o].Type # Market /\ ord[o].Type # IOC
    THEN "type"
  ELSE IF ord[o].Quantity <= 0 THEN "quantity"
  ELSE IF ord[o].Type = Limit /\ ord[o].Price <= 0 THEN "price"
  ELSE IF ord[o].Type = Limit /\ ord[o].Price >= MaxLimitPrice THEN "price"
  ELSE NoError

\* validateOrder: the field of the first rule the order o of ord breaks.
validateOrder(ord, o) ==
  IF o = NilOrder THEN "order"
  ELSE IF ord[o].Symbol = "" THEN "symbol"
  ELSE IF ord[o].Side # Buy /\ ord[o].Side # Sell THEN "side"
  ELSE IF ord[o].Type # Limit /\ ord[o].Type # Market /\ ord[o].Type # IOC
    THEN "type"
  ELSE IF ord[o].Quantity <= 0 THEN "quantity"
  ELSE IF ord[o].Type = Limit /\ ord[o].Price <= 0 THEN "price"
  ELSE IF ord[o].Type = Limit /\ ord[o].Price > MaxLimitPrice THEN "price"
  ELSE NoError

\* The part of the gateway state one book call works on, and back.
BookView(g, symbol) ==
  [ord |-> g.ord, bids |-> g.bids[symbol], asks |-> g.asks[symbol],
   seq |-> g.seq]

WithBook(g, symbol, w) ==
  [g EXCEPT !.ord = w.ord, !.bids[symbol] = w.bids, !.asks[symbol] = w.asks,
            !.seq = w.seq]

\* Mutant of AddAll: the new trades replace the log.
AddAllOverwrite(log, trades) == trades

\* TradeLog.AddAll
AddAll(log, trades) == log \o trades

\* TradeLog.Count
Count(log) == Len(log)

\* Trade.Notional
Notional(t) == t.Price * t.Quantity

\* Mutant of TotalNotional: the prices are summed, the quantities forgotten.
RECURSIVE TotalNotionalPricesOnly(_)
TotalNotionalPricesOnly(log) ==
  IF log = <<>> THEN 0
  ELSE Head(log).Price + TotalNotionalPricesOnly(Tail(log))

\* TradeLog.TotalNotional
RECURSIVE TotalNotional(_)
TotalNotional(log) ==
  IF log = <<>> THEN 0 ELSE Notional(Head(log)) + TotalNotional(Tail(log))

\* TradeLog.TotalVolume
RECURSIVE TotalVolume(_)
TotalVolume(log) ==
  IF log = <<>> THEN 0 ELSE Head(log).Quantity + TotalVolume(Tail(log))

\* TradeLog.VWAP: the quotient as the exact fraction num / den (the rounding
\* of the float64 division is not modelled); 0 is 0 / 1.
VWAP(log) ==
  LET vol == TotalVolume(log)
  IN IF vol = 0 THEN [num |-> 0, den |-> 1]
     ELSE [num |-> TotalNotional(log), den |-> vol]

\* Mutant of Gateway.Submit: an order for an unregistered symbol is refused
\* but its status is left as it came.
GatewaySubmitKeepsStatus(g, o) ==
  IF validateOrder(g.ord, o) # NoError
    THEN IF o = NilOrder
           THEN [g |-> g, err |-> ErrPanic, trades |-> <<>>, iters |-> 0]
           ELSE [g |-> [g EXCEPT !.ord[o].Status = StatusRejected],
                 err |-> validateOrder(g.ord, o), trades |-> <<>>,
                 iters |-> 0]
  ELSE IF g.ord[o].Symbol \notin DOMAIN g.bids
    THEN [g |-> g, err |-> ErrUnsupported, trades |-> <<>>, iters |-> 0]
  ELSE LET symbol == g.ord[o].Symbol
           r == BookSubmit(symbol, BookView(g, symbol), o)
           g1 == WithBook(g, symbol, r.w)
       IN [g |-> [g1 EXCEPT !.log = IF g.hasLog
                                      THEN AddAll(g.log, r.trades)
                                      ELSE g.log],
           err |-> NoError, trades |-> r.trades, iters |-> r.iters]

\* Gateway.Submit of the order o (an ID of g.ord, or NilOrder); g = [ord,
\* bids, asks, log, seq].  Returns the state after the call, the error and
\* the trades.  On a validation error the code writes o.Status before it
\* returns: with a nil o that write panics.
GatewaySubmit(g, o) ==
  IF validateOrder(g.ord, o) # NoError
    THEN IF o = NilOrder
           THEN [g |-> g, err |-> ErrPanic, trades |-> <<>>, iters |-> 0]
           ELSE [g |-> [g EXCEPT !.ord[o].Status = StatusRejected],
                 err |-> validateOrder(g.ord, o), trades |-> <<>>,
                 iters |-> 0]
  ELSE IF g.ord[o].Symbol \notin DOMAIN g.bids
    THEN [g |-> [g EXCEPT !.ord[o].Status = StatusRejected],
          err |-> ErrUnsupported, trades |-> <<>>, iters |-> 0]
  ELSE LET symbol == g.ord[o].Symbol
           r == BookSubmit(symbol, BookView(g, symbol), o)
           g1 == WithBook(g, symbol, r.w)
       IN [g |-> [g1 EXCEPT !.log = IF g.hasLog
                                      THEN AddAll(g.log, r.trades)
                                      ELSE g.log],
           err |-> NoError, trades |-> r.trades, iters |-> r.iters]

\* Mutant of Gateway.Cancel: an unregistered symbol is reported as a miss.
GatewayCancelNoSymbolError(g, symbol, orderID) ==
  IF symbol \notin DOMAIN g.bids
    THEN [g |-> g, err |-> ErrNotFound]
  ELSE LET r == Cancel(BookView(g, symbol), orderID)
       IN IF ~r.ok THEN [g |-> g, err |-> ErrNotFound]
          ELSE [g |-> WithBook(g, symbol, r.w), err |-> NoError]

\* Mutant of Gateway.Cancel: the order is looked up in every book.
GatewayCancelAnyBook(g, symbol, orderID) ==
  IF symbol \notin DOMAIN g.bids
    THEN [g |-> g, err |-> ErrUnsupported]
  ELSE IF \E s \in DOMAIN g.bids : Cancel(BookView(g, s), orderID).ok
    THEN LET s == CHOOSE s \in DOMAIN g.bids :
                    Cancel(BookView(g, s), orderID).ok
         IN [g |-> WithBook(g, s, Cancel(BookView(g, s), orderID).w),
             err |-> NoError]
  ELSE [g |-> g, err |-> ErrNotFound]

\* Gateway.Cancel
GatewayCancel(g, symbol, orderID) ==
  IF symbol \notin DOMAIN g.bids
    THEN [g |-> g, err |-> ErrUnsupported]
  ELSE LET r == Cancel(BookView(g, symbol), orderID)
       IN IF ~r.ok THEN [g |-> g, err |-> ErrNotFound]
          ELSE [g |-> WithBook(g, symbol, r.w), err |-> NoError]

\* ------------------------------------------------------------ the machine
Gw == [ord |-> orders, bids |-> bids, asks |-> asks, log |-> tradeLog,
       seq |-> globalTradeSeq, hasLog |-> logAttached]

\* NewGateway(Symbols, log): one empty book per symbol; hasLog tells whether
\* log is a TradeLog or nil.
NewGateway(hasLog) ==
  /\ logAttached = hasLog
  /\ threads = [t \in Threads \cup Readers |-> NoCall]
  /\ mu = [s \in Symbols |-> Free]
  /\ orders = <<>>
  /\ bids = [s \in Symbols |-> <<>>]
  /\ asks = [s \in Symbols |-> <<>>]
  /\ tradeLog = <<>>
  /\ globalTradeSeq = 0
  /\ submits = 0
  /\ last = [op |-> "New", symbol |-> "", id |-> 0, err |-> NoError,
             trades |-> <<>>, status |-> "", iters |-> 0]
  /\ globalOrderSeq = 0
  /\ calls = [p \in Callers |-> Idle]
  /\ returned = <<>>

\* NewGateway(Symbols, NewTradeLog())
Init == NewGateway(TRUE)

\* NewGateway with a trade log or with nil.
InitAnyLog == \E hasLog \in BOOLEAN : NewGateway(hasLog)

Range(h) == {h[i] : i \in 1 .. Len(h)}

\* Order ids physically present in a queue of book s.
Queued(s) == Range(bids[s]) \cup Range(asks[s])

Install(g) ==
  /\ bids' = g.bids
  /\ asks' = g.asks
  /\ tradeLog' = g.log
  /\ globalTradeSeq' = g.seq
  /\ UNCHANGED <<globalOrderSeq, calls, returned, logAttached, threads, mu>>

\* The orders callers build for book AAPL: every kind of valid order.  A
\* LIMIT order carries any timestamp (its place in the queue); a MARKET or
\* IOC order, which never rests, is the largest lot at the latest time.
BookOrders(id) ==
  {NewOrder(id, "AAPL", side, Limit, price, qty, ts) :
     side \in {Buy, Sell}, price \in 1 .. MaxPrice, qty \in 1 .. MaxQty,
     ts \in 1 .. MaxTime}
  \cup {NewOrder(id, "AAPL", side, Market, 0, MaxQty, MaxTime) :
     side \in {Buy, Sell}}
  \cup {NewOrder(id, "AAPL", side, IOC, price, MaxQty, MaxTime) :
     side \in {Buy, Sell}, price \in 1 .. MaxPrice}

\* The orders callers send through the gateway to either book: LIMIT orders
\* at one price, which cross whenever the sides differ.
GatewayOrders(id) ==
  {NewOrder(id, symbol, side, Limit, 1, qty, 1) :
     symbol \in Symbols, side \in {Buy, Sell}, qty \in 1 .. MaxQty}

\* Orders that break one or several rules of the gateway.
BadOrders(id) ==
  {NewOrder(id, "AAPL", Buy, Limit, 0, 1, 1),
   NewOrder(id, "AAPL", Buy, Limit, 1, 0, 1),
   NewOrder(id, "GOOG", Buy, Limit, 1, 1, 1),
   NewOrder(id, "AAPL", "HOLD", Limit, 1, 1, 1),
   NewOrder(id, "AAPL", Buy, Limit, MaxLimitPrice + 1, 1, 1),
   NewOrder(id, "", Buy, Limit, 1, 1, 1),
   NewOrder(id, "AAPL", Buy, "FOK", 1, 1, 1),
   NewOrder(id, "GOOG", "HOLD", Limit, 0, 0, 1)}

\* gw.Submit(o) of a freshly built order o.  A rejected order never reaches
\* a book; its object is not kept.
SubmitFresh(o) ==
  LET r == GatewaySubmit([Gw EXCEPT !.ord = Append(orders, o)], o.ID)
  IN /\ r.err = NoError => submits < MaxSubmits
     /\ submits' = IF r.err = NoError THEN submits + 1 ELSE submits
     /\ orders' = IF r.err = NoError THEN r.g.ord
                  ELSE SubSeq(r.g.ord, 1, Len(orders))
     /\ Install(r.g)
     /\ last' = [op |-> "Submit", symbol |-> o.Symbol, id |-> o.ID,
                 err |-> r.err, trades |-> r.trades,
                 status |-> r.g.ord[o.ID].Status, iters |-> r.iters]

\* gw.Cancel(symbol, id)
CancelCall(symbol, id) ==
  LET r == GatewayCancel(Gw, symbol, id)
  IN /\ orders' = r.g.ord
     /\ Install(r.g)
     /\ UNCHANGED submits
     /\ last' = [op |-> "Cancel", symbol |-> symbol, id |-> id,
                 err |-> r.err, trades |-> <<>>, status |-> "",
                 iters |-> 0]

SubmitNew == \E o \in BookOrders(Len(orders) + 1) : SubmitFresh(o)

\* A caller submits again an order object it submitted before.
Resubmit ==
  \E id \in 1 .. Len(orders) :
    LET r == GatewaySubmit(Gw, id)
    IN /\ submits < MaxSubmits
       /\ submits' = submits + 1
       /\ orders' = r.g.ord
       /\ Install(r.g)
       /\ last' = [op |-> "Resubmit", symbol |-> orders[id].Symbol,
                   id |-> id, err |-> r.err, trades |-> r.trades,
                   status |-> r.g.ord[id].Status, iters |-> r.iters]

\* A caller cancels an order it has in the queues of book AAPL, whether it
\* is still active or was cancelled or filled already.
CancelOrder == \E id \in Queued("AAPL") : CancelCall("AAPL", id)

\* One book in depth: every kind of order, resubmission and cancellation on
\* book AAPL.
Next == SubmitNew \/ Resubmit \/ CancelOrder

Spec == Init /\ [][Next]_vars

GwSubmitNew ==
  \E o \in GatewayOrders(Len(orders) + 1) \cup BadOrders(Len(orders) + 1) :
    SubmitFresh(o)

GwCancel ==
  \E symbol \in Symbols \cup {"GOOG"}, id \in 1 .. (Len(orders) + 1) :
    CancelCall(symbol, id)

\* The gateway in breadth: both books, an unregistered symbol, rejected
\* orders.
NextGateway == GwSubmitNew \/ Resubmit \/ GwCancel

SpecGateway == Init /\ [][NextGateway]_vars

\* A caller reads the top of book, the spread and the depth of book AAPL.
ReadBook ==
  LET r == ReadTop(BookView(Gw, "AAPL"))
      g == WithBook(Gw, "AAPL", r.w)
  IN /\ last.op # "Read"
     /\ orders' = g.ord
     /\ Install(g)
     /\ UNCHANGED submits
     /\ last' = [op |-> "Read", symbol |-> "AAPL", id |-> 0, err |-> NoError,
                 trades |-> <<>>, status |-> "", iters |-> 0,
                 bid |-> r.bid, ask |-> r.ask, spread |-> r.spread,
                 bidCount |-> r.bidCount, askCount |-> r.askCount]

\* The orders sent to the book that is read: LIMIT orders of any side, price
\* and size.
LimitOrders(id) ==
  {NewOrder(id, "AAPL", side, Limit, price, qty, 1) :
     side \in {Buy, Sell}, price \in 1 .. MaxPrice, qty \in 1 .. MaxQty}

SubmitLimit == \E o \in LimitOrders(Len(orders) + 1) : SubmitFresh(o)

\* One book, with or without a trade log, and a reader.
NextRead == SubmitLimit \/ CancelOrder \/ ReadBook

SpecRead == InitAnyLog /\ [][NextRead]_vars

\* ------------------------------------------- concurrent Gateway.Submit calls
\* Goroutines call Gateway.Submit at the same time.  A step is what a
\* goroutine does between two points where another goroutine can see or
\* change the shared state: the acquisition of the book lock, one pass of the
\* match loop up to the fills and the status of the resting order, the
\* heap.Pop of the filled head, finalizeOrder with the deferred Unlock, and
\* the read and the write of tl.trades = append(tl.trades, trades...), which
\* no lock protects.

\* Mutant of RLockGranted: a reader does not wait for the writer.
RLockIgnoresWriter(m) == TRUE

\* ob.mu.RLock() returns only while no writer holds the lock.
RLockGranted(m) == m = Free

\* ob.mu.Lock() returns only while nobody holds the lock (a reader holds it
\* for the length of one read step, so a read never overlaps a writer).
LockGranted(m) == m = Free

\* The orders the goroutines send: LIMIT orders at one price on either book.
ConcOrders(id) ==
  {NewOrder(id, symbol, side, Limit, 1, qty, 1) :
     symbol \in Symbols, side \in {Buy, Sell}, qty \in 1 .. MaxQty}

\* One pass of the loop of matchBuy or matchSell, stopped before the
\* heap.Pop of a head the pass filled.  Returns the book, the trade of the
\* pass (if any) and where the goroutine goes next.
matchStep(symbol, w, incoming) ==
  LET buy == w.ord[incoming].Side = Buy
      opp == IF buy THEN w.asks ELSE w.bids
      book == IF buy THEN "asks" ELSE "bids"
  IN
  IF ~(Len(opp) > 0 /\ Remaining(w.ord[incoming]) > 0)
    THEN [w |-> w, trades |-> <<>>, pc |-> "finalize"]
  ELSE LET best == opp[1] IN
    IF ~IsActive(w.ord[best])
      THEN [w |-> IF buy
                    THEN [w EXCEPT !.asks = HeapPop("asks", w.ord, w.asks)]
                    ELSE [w EXCEPT !.bids = HeapPop("bids", w.ord, w.bids)],
            trades |-> <<>>, pc |-> "loop"]
    ELSE IF (IF buy THEN buyGate(w.ord[incoming], w.ord[best])
                    ELSE sellGate(w.ord[incoming], w.ord[best]))
      THEN [w |-> w, trades |-> <<>>, pc |-> "finalize"]
    ELSE
      LET qty == execQty(w.ord[incoming], w.ord[best])
          price == execPrice(w.ord[incoming], w.ord[best])
          trade == IF buy
                     THEN newTrade(w.seq, symbol, incoming, best, price, qty,
                                   w.ord[incoming].Timestamp)
                     ELSE newTrade(w.seq, symbol, best, incoming, price, qty,
                                   w.ord[incoming].Timestamp)
          ord1 == applyFill(w.ord, incoming, best, qty)
      IN IF IsFilled(ord1[best])
           THEN [w |-> [w EXCEPT
                          !.ord = [ord1 EXCEPT ![best].Status = StatusFilled],
                          !.seq = @ + 1],
                 trades |-> <<trade>>, pc |-> "pop"]
           ELSE [w |-> [w EXCEPT
                          !.ord = [ord1 EXCEPT ![best].Status = StatusPartial],
                          !.seq = @ + 1],
                 trades |-> <<trade>>, pc |-> "loop"]

\* The heap.Pop that follows bestAsk.Status = StatusFilled (bestBid in
\* matchSell).
popStep(w, incoming) ==
  IF w.ord[incoming].Side = Buy
    THEN [w EXCEPT !.asks = HeapPop("asks", w.ord, w.asks)]
    ELSE [w EXCEPT !.bids = HeapPop("bids", w.ord, w.bids)]

\* The end of matchBuy or matchSell.
finalizeStep(w, incoming) ==
  finalizeOrder(w, incoming,
                IF w.ord[incoming].Side = Buy THEN "bids" ELSE "asks")

\* The book state a thread writes back.
InstallBook(symbol, w) ==
  /\ orders' = w.ord
  /\ bids' = [bids EXCEPT ![symbol] = w.bids]
  /\ asks' = [asks EXCEPT ![symbol] = w.asks]
  /\ globalTradeSeq' = w.seq

\* What Gateway.Submit returns to goroutine t.
Returns(t) ==
  [op |-> "Submit", symbol |-> threads[t].symbol, id |-> threads[t].order,
   err |-> NoError, trades |-> threads[t].trades, status |-> "",
   iters |-> 0]

\* Goroutine t calls gw.Submit(o): validation and routing pass, and
\* book.Submit gets the lock of the book.  start keeps the book as the
\* goroutine found it.
TLock(t) ==
  \E o \in ConcOrders(Len(orders) + 1) :
    /\ threads[t].pc = "idle"
    /\ submits < MaxSubmits
    /\ validateOrder(Append(orders, o), o.ID) = NoError
    /\ o.Symbol \in DOMAIN bids
    /\ LockGranted(mu[o.Symbol])
    /\ submits' = submits + 1
    /\ orders' = Append(orders, o)
    /\ mu' = [mu EXCEPT ![o.Symbol] = t]
    /\ threads' = [threads EXCEPT ![t] =
         [pc |-> "loop", order |-> o.ID, symbol |-> o.Symbol,
          trades |-> <<>>, snap |-> <<>>,
          start |-> BookView([Gw EXCEPT !.ord = Append(orders, o)],
                             o.Symbol)]]
    /\ UNCHANGED <<bids, asks, tradeLog, globalTradeSeq, last, globalOrderSeq,
                   calls, returned, logAttached>>

\* One pass of the match loop.
TLoop(t) ==
  LET th == threads[t]
      r == matchStep(th.symbol, BookView(Gw, th.symbol), th.order)
  IN /\ th.pc = "loop"
     /\ InstallBook(th.symbol, r.w)
     /\ threads' = [threads EXCEPT ![t].pc = r.pc,
                                   ![t].trades = @ \o r.trades]
     /\ UNCHANGED <<tradeLog, submits, last, globalOrderSeq, calls, returned,
                    logAttached, mu>>

\* The filled head leaves the heap.
TPop(t) ==
  LET th == threads[t]
  IN /\ th.pc = "pop"
     /\ InstallBook(th.symbol, popStep(BookView(Gw, th.symbol), th.order))
     /\ threads' = [threads EXCEPT ![t].pc = "loop"]
     /\ UNCHANGED <<tradeLog, submits, last, globalOrderSeq, calls, returned,
                    logAttached, mu>>

\* finalizeOrder, the return of match and the deferred ob.mu.Unlock(); with
\* no log attached Gateway.Submit returns.
TFinalize(t) ==
  LET th == threads[t]
  IN /\ th.pc = "finalize"
     /\ InstallBook(th.symbol,
                    finalizeStep(BookView(Gw, th.symbol), th.order))
     /\ mu' = [mu EXCEPT ![th.symbol] = Free]
     /\ threads' = [threads EXCEPT
          ![t] = IF logAttached THEN [th EXCEPT !.pc = "log", !.start = <<>>]
                 ELSE NoCall]
     /\ last' = IF logAttached THEN last ELSE Returns(t)
     /\ UNCHANGED <<tradeLog, submits, globalOrderSeq, calls, returned,
                    logAttached>>

\* gw.log.AddAll(trades), first half: append reads tl.trades.
TLogRead(t) ==
  /\ threads[t].pc = "log"
  /\ threads' = [threads EXCEPT ![t].pc = "write", ![t].snap = tradeLog]
  /\ UNCHANGED <<orders, bids, asks, tradeLog, globalTradeSeq, submits, last,
                 globalOrderSeq, calls, returned, logAttached, mu>>

\* gw.log.AddAll(trades), second half: the result of append is stored in
\* tl.trades; Gateway.Submit returns.
TLogWrite(t) ==
  /\ threads[t].pc = "write"
  /\ tradeLog' = AddAll(threads[t].snap, threads[t].trades)
  /\ threads' = [threads EXCEPT ![t] = NoCall]
  /\ last' = Returns(t)
  /\ UNCHANGED <<orders, bids, asks, globalTradeSeq, submits, globalOrderSeq,
                 calls, returned, logAttached, mu>>

\* The book of symbol as the last completed Submit or Cancel left it.
Committed(symbol) ==
  IF mu[symbol] = Free THEN BookView(Gw, symbol)
  ELSE threads[mu[symbol]].start

\* What one reader call returns on the book w.
ReadCall(kind, w) ==
  IF kind = "BestBid" THEN BestBid(w.ord, w.bids)
  ELSE IF kind = "BestAsk" THEN BestAsk(w.ord, w.asks)
  ELSE [bidCount |-> Depth(w.ord, w.bids), askCount |-> Depth(w.ord, w.asks)]

\* A goroutine calls BestBid, BestAsk or Depth on a book: RLock, the read,
\* RUnlock.
TRead ==
  \E symbol \in Symbols, kind \in {"BestBid", "BestAsk", "Depth"} :
    /\ RLockGranted(mu[symbol])
    /\ last' = [op |-> "Read", symbol |-> symbol, id |-> 0, err |-> NoError,
                trades |-> <<>>, status |-> "", iters |-> 0, kind |-> kind,
                value |-> ReadCall(kind, BookView(Gw, symbol))]
    /\ UNCHANGED <<orders, bids, asks, tradeLog, globalTradeSeq, submits,
                   globalOrderSeq, calls, returned, logAttached, threads, mu>>

\* A goroutine calls gw.Cancel on an order queued in book AAPL: Lock, the
\* search, the status write, Unlock.
TCancel ==
  \E symbol \in {"AAPL"} :
    \E id \in Queued(symbol) :
      LET r == GatewayCancel(Gw, symbol, id)
      IN /\ LockGranted(mu[symbol])
         /\ r.err = NoError
         /\ InstallBook(symbol, BookView(r.g, symbol))
         /\ last' = [op |-> "Cancel", symbol |-> symbol, id |-> id,
                     err |-> r.err, trades |-> <<>>, status |-> "",
                     iters |-> 0]
         /\ UNCHANGED <<tradeLog, submits, globalOrderSeq, calls, returned,
                        logAttached, threads, mu>>

NextConc ==
  \/ \E t \in Threads : TLock(t)
  \/ \E t \in Threads : TLoop(t)
  \/ \E t \in Threads : TPop(t)
  \/ \E t \in Threads : TFinalize(t)
  \/ \E t \in Threads : TLogRead(t)
  \/ \E t \in Threads : TLogWrite(t)
  \/ TRead
  \/ TCancel

SpecConc == Init /\ [][NextConc]_vars

\* ----------------------------------------------- a concurrent Spread call
\* Spread calls BestBid and then BestAsk; each takes and releases the read
\* lock on its own, so writers can run between the two.

\* The end of Spread: the two results combined.
spreadResult(bid, ask) ==
  IF ~bid.ok \/ ~ask.ok THEN [ok |-> FALSE, value |-> 0]
  ELSE [ok |-> TRUE, value |-> ask.price - bid.price]

\* bid, hasBid := ob.BestBid()
TSpreadBid(t) ==
  /\ threads[t].pc = "idle"
  /\ RLockGranted(mu["AAPL"])
  /\ threads' = [threads EXCEPT ![t] =
       [pc |-> "ask", symbol |-> "AAPL",
        bid |-> BestBid(orders, bids["AAPL"])]]
  /\ UNCHANGED <<orders, bids, asks, tradeLog, globalTradeSeq, submits, last,
                 globalOrderSeq, calls, returned, logAttached, mu>>

\* ask, hasAsk := ob.BestAsk(), and the return of Spread.
TSpreadAsk(t) ==
  /\ threads[t].pc = "ask"
  /\ RLockGranted(mu[threads[t].symbol])
  /\ threads' = [threads EXCEPT ![t] = NoCall]
  /\ last' = [op |-> "Spread", symbol |-> threads[t].symbol, id |-> 0,
              err |-> NoError, trades |-> <<>>, status |-> "", iters |-> 0,
              value |-> spreadResult(threads[t].bid,
                                     BestAsk(orders,
                                             asks[threads[t].symbol]))]
  /\ UNCHANGED <<orders, bids, asks, tradeLog, globalTradeSeq, submits,
                 globalOrderSeq, calls, returned, logAttached, mu>>

NextSpread ==
  \/ \E t \in Threads : TLock(t)
  \/ \E t \in Threads : TLoop(t)
  \/ \E t \in Threads : TPop(t)
  \/ \E t \in Threads : TFinalize(t)
  \/ \E t \in Threads : TLogRead(t)
  \/ \E t \in Threads : TLogWrite(t)
  \/ TCancel
  \/ \E t \in Readers : TSpreadBid(t)
  \/ \E t \in Readers : TSpreadAsk(t)

SpecSpread == Init /\ [][NextSpread]_vars

\* ------------------------------------------------- PrintBook and the lock
\* The lock in detail: Lock first announces the writer, which makes every
\* later RLock wait, and returns once the readers that hold the lock have
\* left; RLock waits while a writer is announced or holds the lock.
\* PrintBook holds the read lock from its first line to its return and
\* calls BestBid and BestAsk, which take the read lock again.

\* A writer has called ob.mu.Lock() on book s and has not unlocked yet.
WriterAnnounced(s) ==
  \/ mu[s] # Free
  \/ \E t \in Threads : threads[t].pc = "pending" /\ threads[t].symbol = s

\* Goroutines that hold the read lock of book s.
ReadHolders(s) ==
  {r \in Readers : /\ threads[r].pc \in {"printing", "innerAsk", "unlock"}
                   /\ threads[r].symbol = s}

\* ob.mu.RLock() returns.
RLockPasses(s) == ~WriterAnnounced(s)

\* ob.mu.Lock() returns.
LockPasses(s) == mu[s] = Free /\ ReadHolders(s) = {}

\* Goroutine t calls gw.Submit(o): validation and routing pass, and
\* book.Submit calls ob.mu.Lock(), which announces the writer.
PLockRequest(t) ==
  \E o \in ConcOrders(Len(orders) + 1) :
    /\ threads[t].pc = "idle"
    /\ submits < MaxSubmits
    /\ validateOrder(Append(orders, o), o.ID) = NoError
    /\ o.Symbol \in DOMAIN bids
    /\ ~WriterAnnounced(o.Symbol)
    /\ submits' = submits + 1
    /\ orders' = Append(orders, o)
    /\ threads' = [threads EXCEPT ![t] =
         [pc |-> "pending", order |-> o.ID, symbol |-> o.Symbol,
          trades |-> <<>>, snap |-> <<>>, start |-> <<>>]]
    /\ UNCHANGED <<bids, asks, tradeLog, globalTradeSeq, last, globalOrderSeq,
                   calls, returned, logAttached, mu>>

\* ob.mu.Lock() returns: the readers have left.
PLockAcquire(t) ==
  /\ threads[t].pc = "pending"
  /\ LockPasses(threads[t].symbol)
  /\ mu' = [mu EXCEPT ![threads[t].symbol] = t]
  /\ threads' = [threads EXCEPT ![t].pc = "loop",
                                ![t].start = BookView(Gw, threads[t].symbol)]
  /\ UNCHANGED <<orders, bids, asks, tradeLog, globalTradeSeq, submits, last,
                 globalOrderSeq, calls, returned, logAttached>>

\* A step of PrintBook that changes nothing but where the goroutine is.
PrintStep(r, from, to) ==
  /\ threads[r].pc = from
  /\ threads' = [threads EXCEPT ![r] =
       IF to = "idle" THEN NoCall ELSE [pc |-> to, symbol |-> "AAPL"]]
  /\ UNCHANGED <<orders, bids, asks, tradeLog, globalTradeSeq, submits, last,
                 globalOrderSeq, calls, returned, logAttached, mu>>

\* PrintBook: ob.mu.RLock()
PrintRLock(r) == RLockPasses("AAPL") /\ PrintStep(r, "idle", "printing")

\* PrintBook: bid, hasBid := ob.BestBid(), which takes the read lock.
PrintBestBid(r) == RLockPasses("AAPL") /\ PrintStep(r, "printing", "innerAsk")

\* PrintBook: ask, hasAsk := ob.BestAsk(), which takes the read lock.
PrintBestAsk(r) == RLockPasses("AAPL") /\ PrintStep(r, "innerAsk", "unlock")

\* PrintBook: the deferred ob.mu.RUnlock()
PrintRUnlock(r) == PrintStep(r, "unlock", "idle")

\* The steps of the calls that are in progress.
Progress ==
  \/ \E t \in Threads : PLockAcquire(t)
  \/ \E t \in Threads : TLoop(t)
  \/ \E t \in Threads : TPop(t)
  \/ \E t \in Threads : TFinalize(t)
  \/ \E t \in Threads : TLogRead(t)
  \/ \E t \in Threads : TLogWrite(t)
  \/ \E r \in Readers : PrintBestBid(r)
  \/ \E r \in Readers : PrintBestAsk(r)
  \/ \E r \in Readers : PrintRUnlock(r)

NextPrint ==
  \/ \E t \in Threads : PLockRequest(t)
  \/ \E r \in Readers : PrintRLock(r)
  \/ Progress

SpecPrint == Init /\ [][NextPrint]_vars

\* Every combination of field values a caller can put in an order, around
\* each limit validateOrder tests; Status as a factory sets it (OPEN) or as a
\* struct literal leaves it (empty).
AnyOrders(id) ==
  {[NewOrder(id, symbol, side, type, price, qty, 1) EXCEPT !.Status = status] :
     symbol \in {"", "AAPL", "GOOG"}, side \in {Buy, Sell, "HOLD"},
     type \in {Limit, Market, IOC, "FOK"},
     price \in {-1, 0, 1, MaxLimitPrice, MaxLimitPrice + 1},
     qty \in {-1, 0, 1}, status \in {StatusOpen, ""}}

\* gw.Submit(o) of a freshly built order o, which the caller keeps whether it
\* was accepted or rejected.
SubmitKept(o) ==
  LET r == GatewaySubmit([Gw EXCEPT !.ord = Append(orders, o)], o.ID)
  IN /\ submits' = submits
     /\ orders' = r.g.ord
     /\ Install(r.g)
     /\ last' = [op |-> "Submit", symbol |-> o.Symbol, id |-> o.ID,
                 err |-> r.err, trades |-> r.trades,
                 status |-> r.g.ord[o.ID].Status, iters |-> r.iters]

VSubmit ==
  /\ last.err # ErrPanic
  /\ Len(orders) < MaxObjects
  /\ \E o \in AnyOrders(Len(orders) + 1) : SubmitKept(o)

\* The caller submits again an object it kept.
VResubmit == last.err # ErrPanic /\ Resubmit

\* gw.Submit(nil)
SubmitNil ==
  LET r == GatewaySubmit(Gw, NilOrder)
  IN /\ last.err # ErrPanic
     /\ orders' = r.g.ord
     /\ Install(r.g)
     /\ UNCHANGED submits
     /\ last' = [op |-> "Submit", symbol |-> "", id |-> NilOrder,
                 err |-> r.err, trades |-> r.trades, status |-> "",
                 iters |-> r.iters]

\* Fresh orders for book AAPL: LIMIT orders of any side, price and size, and
\* the MARKET orders.
FreshOrders(id) ==
  {o \in BookOrders(id) :
     o.Type = Market \/ (o.Type = Limit /\ o.Timestamp = 1)}

SubmitValid == \E o \in FreshOrders(Len(orders) + 1) : SubmitFresh(o)

\* An order the gateway rejects, whose object the caller keeps.
RejectedOrders(id) == {NewOrder(id, "AAPL", Buy, Limit, 0, 1, 1)}

SubmitRejected ==
  /\ Cardinality({i \in DOMAIN orders :
                    orders[i].Status = StatusRejected}) < MaxObjects
  /\ \E o \in RejectedOrders(Len(orders) + 1) : SubmitKept(o)

\* A caller cancels, under AAPL, an order that is in a queue or that was
\* rejected.
CancelAny ==
  \E id \in Queued("AAPL")
           \cup {i \in DOMAIN orders : orders[i].Status = StatusRejected} :
    CancelCall("AAPL", id)

\* Fresh orders only: every object is submitted once.
NextFresh == SubmitValid \/ SubmitRejected \/ CancelAny

SpecFresh == Init /\ [][NextFresh]_vars

\* Validation: one order object of any shape, or none, through Gateway.Submit.
NextValidate == VSubmit \/ VResubmit \/ SubmitNil

SpecValidate == Init /\ [][NextValidate]_vars

\* Caller p enters nextOrderID ("order") or nextTradeID ("trade"); seen is
\* the number of allocator calls that had returned by then.
IdInvoke ==
  \E p \in Callers, c \in {"order", "trade"} :
    /\ calls[p].pc = "idle"
    /\ Len(returned) + Cardinality({q \in Callers : calls[q].pc # "idle"})
         < MaxCalls
    /\ calls' = [calls EXCEPT ![p] = [pc |-> "invoked", counter |-> c,
                                      val |-> 0, seen |-> Len(returned)]]
    /\ UNCHANGED <<orders, bids, asks, tradeLog, globalTradeSeq, submits,
                   last, globalOrderSeq, returned, logAttached, threads, mu>>

\* The atomic.AddUint64 of the call of p.
IdAdd ==
  \E p \in Callers :
    /\ calls[p].pc = "invoked"
    /\ IF calls[p].counter = "order"
         THEN /\ globalOrderSeq' = AddUint64(globalOrderSeq, 1)
              /\ calls' = [calls EXCEPT ![p].pc = "added",
                                        ![p].val = globalOrderSeq']
              /\ UNCHANGED globalTradeSeq
         ELSE /\ globalTradeSeq' = AddUint64(globalTradeSeq, 1)
              /\ calls' = [calls EXCEPT ![p].pc = "added",
                                        ![p].val = globalTradeSeq']
              /\ UNCHANGED globalOrderSeq
    /\ UNCHANGED <<orders, bids, asks, tradeLog, submits, last, returned,
                   logAttached, threads, mu>>

\* The call of p returns the value it obtained.
IdReturn ==
  \E p \in Callers :
    /\ calls[p].pc = "added"
    /\ returned' = Append(returned, [caller |-> p,
                                     counter |-> calls[p].counter,
                                     value |-> calls[p].val,
                                     seen |-> calls[p].seen])
    /\ calls' = [calls EXCEPT ![p] = Idle]
    /\ UNCHANGED <<orders, bids, asks, tradeLog, globalTradeSeq, submits,
                   last, globalOrderSeq, logAttached, threads, mu>>

\* The two identifier counters under concurrent callers.
NextIds == IdInvoke \/ IdAdd \/ IdReturn

SpecIds == Init /\ [][NextIds]_vars

\* ================================================================== claims
IsSubmit(l) == l.op = "Submit" \/ l.op = "Resubmit"

\* The resting party of a trade the incoming order inc produced.
Passive(t, inc) == IF t.BuyOrderID = inc THEN t.SellOrderID ELSE t.BuyOrderID

RECURSIVE SumFilled(_, _)
SumFilled(ord, side) ==
  IF ord = <<>> THEN 0
  ELSE (IF Head(ord).Side = side THEN Head(ord).Filled ELSE 0)
       + SumFilled(Tail(ord), side)

\* C1: every trade a Submit returns carries the price of the resting order
\* it was matched against (which is terminal or still queued afterwards).
C1_PassivePrice ==
  IsSubmit(last) =>
    \A k \in 1 .. Len(last.trades) :
      last.trades[k].Price = orders[Passive(last.trades[k], last.id)].Price

\* C1 witness: a LIMIT order traded at a resting price different from its own.
C1_Witness ==
  /\ IsSubmit(last)
  /\ orders[last.id].Type = Limit
  /\ \E k \in 1 .. Len(last.trades) :
       /\ last.trades[k].Price # orders[last.id].Price
       /\ last.trades[k].Price = orders[Passive(last.trades[k], last.id)].Price

\* C2: in every state between calls, a book whose BestBid and BestAsk are
\* both present has best bid < best ask.
C2_NoCrossedTop ==
  \A s \in Symbols :
    (BestBid(orders, bids[s]).ok /\ BestAsk(orders, asks[s]).ok) =>
      BestBid(orders, bids[s]).price < BestAsk(orders, asks[s]).price

\* C2 witness: after a Submit that traded, both sides of the book are present.
C2_Witness ==
  /\ IsSubmit(last) /\ last.trades # <<>>
  /\ BestBid(orders, bids["AAPL"]).ok /\ BestAsk(orders, asks["AAPL"]).ok

\* The queue of book s an incoming order of side `side` matches against.
Opposite(s, side) == IF side = Buy THEN asks[s] ELSE bids[s]

\* Price p is strictly better than q for a resting order facing `side`.
BetterFor(side, p, q) == IF side = Buy THEN p < q ELSE p > q

\* C3: when an incoming order trades against resting order P, every order
\* that was active on P's side at the start of the call with a strictly
\* better price than P has been filled completely by an earlier trade of the
\* same call: none is active with a better price at the moment P trades.
C3_Step ==
  IsSubmit(last') =>
    LET inc == last'.id
        side == orders'[inc].Side
        opp == Opposite(last'.symbol, side)
    IN \A k \in 1 .. Len(last'.trades) :
         LET P == Passive(last'.trades[k], inc) IN
         \A Q \in Range(opp) :
           (Q # P /\ IsActive(orders[Q])
              /\ BetterFor(side, orders[Q].Price, orders[P].Price)) =>
             /\ orders'[Q].Status = StatusFilled
             /\ \E j \in 1 .. (k - 1) : Passive(last'.trades[j], inc) = Q

C3_PricePriority == [][C3_Step]_vars

\* C3 witness: an order traded against P while an order that arrived before
\* P, at a worse price, is still active on P's side.
C3_Witness ==
  /\ IsSubmit(last) /\ last.trades # <<>>
  /\ LET P == Passive(last.trades[1], last.id) IN
     \E Q \in Range(Opposite(last.symbol, orders[last.id].Side)) :
       /\ Q < P
       /\ IsActive(orders[Q])
       /\ BetterFor(orders[last.id].Side, orders[P].Price, orders[Q].Price)

\* C4: of two active orders resting on the same side at the same price with
\* distinct timestamps, the later one receives a fill in a call only once the
\* earlier one has no remaining quantity, and after an earlier trade of that
\* call against the earlier one.
C4_Step ==
  \A s \in Symbols :
    \A h \in {bids[s], asks[s]} :
      \A E \in Range(h), L \in Range(h) :
        (/\ IsActive(orders[E]) /\ IsActive(orders[L])
         /\ orders[E].Price = orders[L].Price
         /\ orders[E].Timestamp < orders[L].Timestamp
         /\ orders'[L].Filled # orders[L].Filled) =>
          /\ Remaining(orders'[E]) = 0
          /\ \A k \in 1 .. Len(last'.trades) :
               Passive(last'.trades[k], last'.id) = L =>
                 \E j \in 1 .. (k - 1) : Passive(last'.trades[j], last'.id) = E

C4_TimePriority == [][C4_Step]_vars

\* C4 witness: an order traded against P while an order with the same price
\* and a later timestamp, submitted before P, is still active and unfilled.
C4_Witness ==
  /\ IsSubmit(last) /\ last.trades # <<>>
  /\ LET P == Passive(last.trades[1], last.id) IN
     \E L \in Range(Opposite(last.symbol, orders[last.id].Side)) :
       /\ L < P
       /\ IsActive(orders[L]) /\ orders[L].Filled = 0
       /\ orders[L].Price = orders[P].Price
       /\ orders[L].Timestamp > orders[P].Timestamp

\* C5: every order has 0 <= Filled <= Quantity.
C5_FilledBounded ==
  \A i \in 1 .. Len(orders) :
    0 <= orders[i].Filled /\ orders[i].Filled <= orders[i].Quantity

\* C5 witness: a trade left one order partially and one completely filled.
C5_Witness ==
  /\ last.trades # <<>>
  /\ \E i \in 1 .. Len(orders), j \in 1 .. Len(orders) :
       /\ 0 < orders[i].Filled /\ orders[i].Filled < orders[i].Quantity
       /\ orders[j].Filled = orders[j].Quantity

\* C6: the fills of the BUY orders, the fills of the SELL orders and the
\* quantities of the logged trades have the same sum.
C6_Conservation ==
  /\ SumFilled(orders, Buy) = SumFilled(orders, Sell)
  /\ SumFilled(orders, Buy) = TotalVolume(tradeLog)

\* C6 witness: several trades, more than one lot in total.
C6_Witness ==
  /\ Len(tradeLog) >= 2
  /\ TotalVolume(tradeLog) >= 2
  /\ SumFilled(orders, Sell) = TotalVolume(tradeLog)

\* C7 (as claimed): once Cancel has succeeded for resting order X (the only
\* way a LIMIT order becomes CANCELLED), no later call changes X.Filled or
\* returns a trade naming X.
C7_Step ==
  \A x \in 1 .. Len(orders) :
    (orders[x].Type = Limit /\ orders[x].Status = StatusCancelled) =>
      /\ orders'[x].Filled = orders[x].Filled
      /\ \A k \in 1 .. Len(last'.trades) :
           last'.trades[k].BuyOrderID # x /\ last'.trades[k].SellOrderID # x

C7_CancelledNeverTrades == [][C7_Step]_vars

\* An active order with this id rests in book s.
ActiveResting(s, id) == id \in Queued(s) /\ IsActive(orders[id])

\* C8: a Cancel routed to book s succeeds exactly when an order with that id
\* rests in s with status OPEN or PARTIAL, and then only sets that order's
\* status to CANCELLED; otherwise it changes no order.
C8_Step ==
  (last'.op = "Cancel" /\ last'.symbol \in Symbols) =>
    LET s == last'.symbol
        id == last'.id
    IN /\ (last'.err = NoError) = ActiveResting(s, id)
       /\ ActiveResting(s, id) =>
            orders' = [orders EXCEPT ![id].Status = StatusCancelled]
       /\ ~ActiveResting(s, id) => orders' = orders

C8_CancelExact == [][C8_Step]_vars

\* C8 witness: a partially filled ask was cancelled: Cancel succeeded.
C8_Witness ==
  /\ last.op = "Cancel" /\ last.err = NoError
  /\ last.id \in Range(asks[last.symbol])
  /\ orders[last.id].Status = StatusCancelled
  /\ orders[last.id].Filled > 0

\* C9: a Cancel, on a registered symbol, of an order that is already
\* CANCELLED or FILLED reports not-found and leaves the queues, every order,
\* the tops of book and the depths as they were.
C9_Step ==
  (/\ last'.op = "Cancel" /\ last'.symbol \in Symbols
   /\ last'.id \in 1 .. Len(orders)
   /\ orders[last'.id].Status \in {StatusCancelled, StatusFilled}) =>
    /\ last'.err = ErrNotFound
    /\ UNCHANGED <<orders, bids, asks>>
    /\ \A s \in Symbols :
         /\ BestBid(orders', bids'[s]) = BestBid(orders, bids[s])
         /\ BestAsk(orders', asks'[s]) = BestAsk(orders, asks[s])
         /\ Depth(orders', bids'[s]) = Depth(orders, bids[s])
         /\ Depth(orders', asks'[s]) = Depth(orders, asks[s])

C9_CancelNotRepeatable == [][C9_Step]_vars

\* C9 witness: a second Cancel of a cancelled order that is still in its
\* queue reported not-found.
C9_Witness ==
  /\ last.op = "Cancel" /\ last.err = ErrNotFound
  /\ last.symbol \in Symbols
  /\ last.id \in Queued(last.symbol)
  /\ orders[last.id].Status = StatusCancelled

\* C10: Gateway.Cancel answers unknown-symbol for an unregistered symbol,
\* not-found for a registered symbol whose book holds no active resting order
\* with that id, and ok otherwise; the two errors leave every book, every
\* order and the trade log unchanged.
C10_Step ==
  last'.op = "Cancel" =>
    IF last'.symbol \notin Symbols
      THEN /\ last'.err = ErrUnsupported
           /\ UNCHANGED <<orders, bids, asks, tradeLog>>
    ELSE IF ~ActiveResting(last'.symbol, last'.id)
      THEN /\ last'.err = ErrNotFound
           /\ UNCHANGED <<orders, bids, asks, tradeLog>>
    ELSE last'.err = NoError

C10_CancelOutcomes == [][C10_Step]_vars

\* C10 witness: a Cancel naming an unregistered symbol and the id of an
\* active resting order was answered unknown-symbol.
C10_Witness ==
  /\ last.op = "Cancel" /\ last.symbol \notin Symbols
  /\ last.err = ErrUnsupported
  /\ \E s \in Symbols : ActiveResting(s, last.id)

\* C11: when Gateway.Submit rejects an order it returns an error and no
\* trades, the order's status is REJECTED, no queue, no other order and no
\* trade-log entry changes, and the set of books stays the registered one.
C11_Step ==
  (IsSubmit(last') /\ last'.err \notin {NoError, ErrPanic}) =>
    /\ last'.trades = <<>>
    /\ last'.status = StatusRejected
    /\ UNCHANGED <<bids, asks, tradeLog, globalTradeSeq>>
    /\ DOMAIN bids' = Symbols /\ DOMAIN asks' = Symbols
    /\ \A i \in 1 .. Len(orders) : i # last'.id => orders'[i] = orders[i]

C11_RejectTouchesNothing == [][C11_Step]_vars

\* C11 witness: an order for an unregistered symbol was rejected while a
\* book held resting orders.
C11_Witness ==
  /\ last.op = "Submit" /\ last.err = ErrUnsupported
  /\ last.status = StatusRejected
  /\ \E s \in Symbols : \E x \in Queued(s) : IsActive(orders[x])

\* What the gateway must accept.
Acceptable(o) ==
  /\ o.Symbol # "" /\ o.Symbol \in Symbols
  /\ o.Side \in {"BUY", "SELL"}
  /\ o.Type \in {"LIMIT", "MARKET", "IOC"}
  /\ o.Quantity > 0
  /\ o.Type = "LIMIT" => (0 < o.Price /\ o.Price <= 1000000)

\* C12: Gateway.Submit accepts a non-null order exactly when its symbol is
\* non-empty and registered, its side BUY or SELL, its type LIMIT, MARKET or
\* IOC, its quantity > 0 and, for LIMIT, 0 < price <= 1,000,000.
C12_Step ==
  (IsSubmit(last') /\ last'.id # NilOrder) =>
    ((last'.err = NoError) <=> Acceptable(orders'[last'.id]))

C12_AcceptIff == [][C12_Step]_vars

\* C12 witness: a LIMIT order priced exactly 1,000,000 was accepted.
C12_Witness ==
  /\ last.op = "Submit" /\ last.id # NilOrder /\ last.err = NoError
  /\ orders[last.id].Type = Limit /\ orders[last.id].Price = 1000000

\* C13 (as claimed): Gateway.Submit(nil) returns the malformed-order
\* rejection and leaves every book and the trade log unchanged.
C13_Step ==
  (last'.op = "Submit" /\ last'.id = NilOrder) =>
    /\ last'.err = "order"
    /\ UNCHANGED <<orders, bids, asks, tradeLog>>

C13_NilRejected == [][C13_Step]_vars

\* C14 (as claimed): Gateway.Submit of an order object whose status is
\* FILLED, CANCELLED or REJECTED fails with a rejection: no trades, no queue
\* changes, and the order's filled quantity and inactive status stay.
C14_Step ==
  (last'.op = "Resubmit" /\
   orders[last'.id].Status \in
     {StatusFilled, StatusCancelled, StatusRejected}) =>
    /\ last'.err # NoError
    /\ last'.trades = <<>>
    /\ UNCHANGED <<bids, asks>>
    /\ orders'[last'.id].Filled = orders[last'.id].Filled
    /\ ~IsActive(orders'[last'.id])

C14_TerminalRejected == [][C14_Step]_vars

\* The queue of the side of order o in book s, before and after a step.
OwnQueue(o) == IF o.Side = Buy THEN bids[o.Symbol] ELSE asks[o.Symbol]

OwnQueueAfter(o) == IF o.Side = Buy THEN bids'[o.Symbol] ELSE asks'[o.Symbol]

\* C15 (as claimed): after an accepted Submit of a LIMIT order, an order that
\* is not completely filled has been inserted into the queue of its own side
\* with status PARTIAL if filled > 0 and OPEN if filled = 0, whatever status
\* it carried; a completely filled one is FILLED and was not inserted.
C15_Step ==
  (/\ IsSubmit(last') /\ last'.id # NilOrder /\ last'.err = NoError
   /\ orders'[last'.id].Type = Limit) =>
    LET o == orders'[last'.id] IN
    IF o.Filled < o.Quantity
      THEN /\ Len(OwnQueueAfter(o)) = Len(OwnQueue(o)) + 1
           /\ last'.id \in Range(OwnQueueAfter(o))
           /\ o.Status = IF o.Filled > 0 THEN StatusPartial ELSE StatusOpen
      ELSE /\ o.Status = StatusFilled
           /\ OwnQueueAfter(o) = OwnQueue(o)

C15_LimitResidualRests == [][C15_Step]_vars

\* C16: MARKET and IOC orders never rest: no queue of any book holds one,
\* and after Submit of one its status is FILLED if filled = quantity and
\* CANCELLED otherwise.
C16_MarketIocNeverRest ==
  /\ \A s \in Symbols : \A x \in Queued(s) : orders[x].Type = Limit
  /\ (/\ IsSubmit(last) /\ last.id # NilOrder /\ last.err = NoError
      /\ orders[last.id].Type \in {Market, IOC}) =>
       orders[last.id].Status =
         IF orders[last.id].Filled = orders[last.id].Quantity
           THEN StatusFilled ELSE StatusCancelled

\* C16 witness: a MARKET order was filled in part and its residual was
\* cancelled.
C16_Witness ==
  /\ last.op = "Submit" /\ last.err = NoError /\ last.id # NilOrder
  /\ orders[last.id].Type = Market
  /\ orders[last.id].Filled > 0
  /\ orders[last.id].Filled < orders[last.id].Quantity
  /\ orders[last.id].Status = StatusCancelled

\* C17 (as claimed): no trade of an incoming IOC BUY is priced above the
\* order's price, none of an incoming IOC SELL below it.
C17_IocWithinLimit ==
  (/\ IsSubmit(last) /\ last.id # NilOrder /\ last.err = NoError
   /\ orders[last.id].Type = IOC) =>
    \A k \in 1 .. Len(last.trades) :
      IF orders[last.id].Side = Buy
        THEN last.trades[k].Price <= orders[last.id].Price
        ELSE last.trades[k].Price >= orders[last.id].Price

\* Prices of the active orders in a queue.
ActivePrices(h) == {orders[x].Price : x \in {y \in Range(h) : IsActive(orders[y])}}

\* C18 (as claimed): whenever an active order rests on a side, BestBid
\* (BestAsk) reports present with the highest (lowest) active price of that
\* side.
C18_BestSkipsInactive ==
  \A s \in Symbols :
    /\ ActivePrices(bids[s]) # {} =>
         /\ BestBid(orders, bids[s]).ok
         /\ \A p \in ActivePrices(bids[s]) : p <= BestBid(orders, bids[s]).price
    /\ ActivePrices(asks[s]) # {} =>
         /\ BestAsk(orders, asks[s]).ok
         /\ \A p \in ActivePrices(asks[s]) : p >= BestAsk(orders, asks[s]).price

\* C19 (as claimed): after every completed Submit the head of each queue
\* that is not empty is an active order.
C19_HeadActiveAfterSubmit ==
  (IsSubmit(last) /\ last.err = NoError) =>
    \A s \in Symbols :
      /\ bids[s] # <<>> => IsActive(orders[bids[s][1]])
      /\ asks[s] # <<>> => IsActive(orders[asks[s][1]])

\* Values counter c has handed out: returned ones and ones still in flight.
Issued(c) ==
  {returned[i].value : i \in {j \in 1 .. Len(returned) : returned[j].counter = c}}
  \cup {calls[p].val : p \in {q \in Callers : calls[q].pc = "added" /\
                                             calls[q].counter = c}}

\* Number of values counter c has handed out.
IssuedCount(c) ==
  Cardinality({j \in 1 .. Len(returned) : returned[j].counter = c})
  + Cardinality({q \in Callers : calls[q].pc = "added" /\ calls[q].counter = c})

\* C20: under any interleaving, the values one counter hands out are
\* pairwise distinct, each call gets a value strictly greater than that of
\* every call of the same counter that had returned before it began, and a
\* counter's values depend only on its own calls (the n-th value is n).
C20_IdsUniqueIncreasing ==
  /\ \A c \in {"order", "trade"} :
       /\ Cardinality(Issued(c)) = IssuedCount(c)
       /\ Issued(c) = 1 .. IssuedCount(c)
  /\ \A j \in 1 .. Len(returned) : \A i \in 1 .. returned[j].seen :
       returned[i].counter = returned[j].counter =>
         returned[i].value < returned[j].value
  /\ \A p \in Callers : \A i \in 1 .. calls[p].seen :
       (calls[p].pc = "added" /\ returned[i].counter = calls[p].counter) =>
         returned[i].value < calls[p].val

\* C20 witness: two calls of the same counter overlapped, a call of that
\* counter began after one had returned, and the other counter was used.
C20_Witness ==
  /\ \E i, j \in 1 .. Len(returned) :
       /\ i < j /\ returned[i].counter = returned[j].counter
       /\ returned[j].seen < i
  /\ \E i, j \in 1 .. Len(returned) :
       /\ returned[i].counter = returned[j].counter
       /\ i <= returned[j].seen
  /\ \E i, j \in 1 .. Len(returned) : returned[i].counter # returned[j].counter

\* Sum of quantity (w = "q") or of price x quantity (w = "n") over the first
\* n trades of a log.
RECURSIVE SumFirst(_, _, _)
SumFirst(log, n, w) ==
  IF n = 0 THEN 0
  ELSE SumFirst(log, n - 1, w)
       + (IF w = "q" THEN log[n].Quantity ELSE log[n].Price * log[n].Quantity)

\* C24: the aggregates agree with the log: Count is the number of trades,
\* TotalVolume the sum of quantities, TotalNotional the sum of price x
\* quantity, VWAP their quotient when the volume is > 0, and 0 for the empty
\* log.
C24_LogAggregates ==
  /\ Count(tradeLog) = Cardinality(DOMAIN tradeLog)
  /\ TotalVolume(tradeLog) = SumFirst(tradeLog, Len(tradeLog), "q")
  /\ TotalNotional(tradeLog) = SumFirst(tradeLog, Len(tradeLog), "n")
  /\ SumFirst(tradeLog, Len(tradeLog), "q") > 0 =>
       VWAP(tradeLog).num * SumFirst(tradeLog, Len(tradeLog), "q")
         = SumFirst(tradeLog, Len(tradeLog), "n") * VWAP(tradeLog).den
  /\ tradeLog = <<>> => VWAP(tradeLog).num = 0

\* C24 witness: a log of two trades at different prices.
C24_Witness ==
  /\ Len(tradeLog) >= 2
  /\ \E i, j \in 1 .. Len(tradeLog) : tradeLog[i].Price # tradeLog[j].Price
  /\ VWAP(tradeLog).num = 3 /\ VWAP(tradeLog).den = 2

\* C25: Spread reports present exactly when BestBid and BestAsk both do, and
\* its value is then best ask minus best bid.
C25_SpreadBothSides ==
  \A s \in Symbols :
    LET bid == BestBid(orders, bids[s])
        ask == BestAsk(orders, asks[s])
        spread == Spread(orders, bids[s], asks[s])
    IN /\ spread.ok <=> (bid.ok /\ ask.ok)
       /\ spread.ok => spread.value = ask.price - bid.price

\* C25 witness: a book with a bid and a higher ask, and a book state with
\* only one side present.
C25_Witness ==
  /\ Spread(orders, bids["AAPL"], asks["AAPL"]).ok
  /\ Spread(orders, bids["AAPL"], asks["AAPL"]).value > 0
  /\ Len(orders) >= 3

\* The reason the rules, taken in the claimed order, give for order o.
FirstBrokenRule(o) ==
  IF o.Symbol = "" THEN "symbol"
  ELSE IF o.Symbol \notin Symbols THEN ErrUnsupported
  ELSE IF o.Side \notin {"BUY", "SELL"} THEN "side"
  ELSE IF o.Type \notin {"LIMIT", "MARKET", "IOC"} THEN "type"
  ELSE IF o.Quantity <= 0 THEN "quantity"
  ELSE IF o.Type = "LIMIT" /\ (o.Price <= 0 \/ o.Price > 1000000) THEN "price"
  ELSE NoError

\* C26 (as claimed): a rejection reports the first rule the order breaks in
\* the order symbol (non-empty and registered), side, type, quantity, price.
C26_Step ==
  (last'.op = "Submit" /\ last'.id # NilOrder) =>
    last'.err = FirstBrokenRule(orders'[last'.id])

C26_FirstRuleReported == [][C26_Step]_vars

\* Active orders resting in a queue.
ActiveIn(h) == {x \in Range(h) : IsActive(orders[x])}

\* C28 (as claimed): Depth is, per side, the number of orders with status
\* OPEN or PARTIAL resting on that side, and a successful Cancel lowers the
\* depth of the order's side by one and leaves the other side's depth.
C28_Step ==
  /\ \A s \in Symbols :
       /\ Depth(orders, bids[s]) = Cardinality(ActiveIn(bids[s]))
       /\ Depth(orders, asks[s]) = Cardinality(ActiveIn(asks[s]))
  /\ (last'.op = "Cancel" /\ last'.err = NoError) =>
       LET s == last'.symbol
           own == IF orders[last'.id].Side = Buy THEN "bids" ELSE "asks"
       IN /\ Depth(orders', bids'[s]) =
               Depth(orders, bids[s]) - (IF own = "bids" THEN 1 ELSE 0)
          /\ Depth(orders', asks'[s]) =
               Depth(orders, asks[s]) - (IF own = "asks" THEN 1 ELSE 0)

C28_DepthCountsActive == [][C28_Step]_vars

\* Quantity of the first n trades of a sequence that name order x.
RECURSIVE TradedBefore(_, _, _)
TradedBefore(trades, n, x) ==
  IF n = 0 THEN 0
  ELSE TradedBefore(trades, n - 1, x)
       + (IF trades[n].BuyOrderID = x \/ trades[n].SellOrderID = x
            THEN trades[n].Quantity ELSE 0)

\* C30: every trade of a Submit has as quantity the minimum of the two
\* remaining quantities at the moment of the match, which is > 0; its buy id
\* is the BUY order and its sell id the SELL order, one of them the incoming
\* order; its symbol is the book's and its timestamp the incoming order's.
C30_Step ==
  (IsSubmit(last') /\ last'.id # NilOrder /\ last'.err = NoError) =>
    \A k \in 1 .. Len(last'.trades) :
      LET t == last'.trades[k]
          inc == last'.id
          res == Passive(t, inc)
          incLeft == (IF inc <= Len(orders) THEN Remaining(orders[inc])
                      ELSE orders'[inc].Quantity)
                       - TradedBefore(last'.trades, k - 1, inc)
          resLeft == Remaining(orders[res])
                       - TradedBefore(last'.trades, k - 1, res)
      IN /\ t.Quantity = (IF incLeft < resLeft THEN incLeft ELSE resLeft)
         /\ t.Quantity > 0
         /\ inc \in {t.BuyOrderID, t.SellOrderID}
         /\ orders'[t.BuyOrderID].Side = "BUY"
         /\ orders'[t.SellOrderID].Side = "SELL"
         /\ t.Symbol = orders'[inc].Symbol
         /\ t.Timestamp = orders'[inc].Timestamp

C30_TradeWellFormed == [][C30_Step]_vars

\* C30 witness: an incoming SELL order produced two trades.
C30_Witness ==
  /\ IsSubmit(last) /\ last.id # NilOrder /\ Len(last.trades) = 2
  /\ orders[last.id].Side = Sell
  /\ last.trades[1].SellOrderID = last.id
  /\ last.trades[1].BuyOrderID # last.trades[2].BuyOrderID

\* The queue an incoming order of side `side` matches against, in book s.
OppositeQueue(s, side) == IF side = Buy THEN asks[s] ELSE bids[s]

\* C29: the match loop of a Submit is entered at most once per entry
\* physically present in the opposite queue when the call began.
C29_Step ==
  (IsSubmit(last') /\ last'.id # NilOrder /\ last'.err = NoError) =>
    last'.iters <= Len(OppositeQueue(last'.symbol, orders'[last'.id].Side))

C29_LoopBounded == [][C29_Step]_vars

\* C29 witness: a Submit that needed one iteration for each of the two
\* entries of the opposite queue, one of them an inactive entry.
C29_Witness ==
  /\ IsSubmit(last) /\ last.id # NilOrder /\ last.iters = 2
  /\ Len(last.trades) = 1

\* Sum of the quantities of a sequence of trades.
TradedQty(trades) == SumFirst(trades, Len(trades), "q")

\* C23: after a successful Submit the log is its previous content followed
\* by the trades the call returned, in order; no step modifies or removes an
\* entry; with no log attached the call still matches (the fills of the
\* incoming order are the trades it returns) and nothing is logged.
C23_Step ==
  /\ Len(tradeLog') >= Len(tradeLog)
  /\ SubSeq(tradeLog', 1, Len(tradeLog)) = tradeLog
  /\ (IsSubmit(last') /\ last'.id # NilOrder /\ last'.err = NoError) =>
       /\ tradeLog' = IF logAttached THEN tradeLog \o last'.trades
                      ELSE tradeLog
       /\ orders'[last'.id].Filled = TradedQty(last'.trades)

C23_LogAppendOnly == [][C23_Step]_vars

\* C23 witness: a Submit that returned a trade appended it to a log that
\* already held one.
C23_Witness ==
  /\ logAttached /\ IsSubmit(last) /\ last.err = NoError
  /\ Len(last.trades) >= 1
  /\ Len(tradeLog) > Len(last.trades)

\* C27: BestBid, BestAsk, Spread and Depth leave both queues and every order
\* as they were; a side whose head is inactive is reported not present.
C27_Step ==
  last'.op = "Read" =>
    /\ UNCHANGED <<orders, bids, asks>>
    /\ \A s \in {last'.symbol} :
         /\ (bids[s] # <<>> /\ ~IsActive(orders[bids[s][1]])) => ~last'.bid.ok
         /\ (asks[s] # <<>> /\ ~IsActive(orders[asks[s][1]])) => ~last'.ask.ok

C27_ReadersDoNotWrite == [][C27_Step]_vars

\* C27 witness: the readers ran on a bid queue whose head is cancelled and
\* which holds an active order behind it.
C27_Witness ==
  /\ last.op = "Read" /\ ~last.bid.ok
  /\ Len(bids["AAPL"]) >= 2
  /\ ~IsActive(orders[bids["AAPL"][1]])
  /\ last.bidCount >= 1

\* Number of entries of the log that carry the trade id k.
Logged(k) == Cardinality({i \in DOMAIN tradeLog : tradeLog[i].ID = k})

\* C21: once every concurrent Gateway.Submit call has returned, the log
\* holds every trade the calls produced exactly once.
C21_LogHoldsEveryTrade ==
  (\A t \in Threads : threads[t].pc = "idle") =>
    \A k \in 1 .. globalTradeSeq : Logged(k) = 1

\* C22: what a BestBid, BestAsk or Depth call returns is what it returns on
\* the book as the last completed Submit or Cancel left it.
C22_Step ==
  (last' # last /\ last'.op = "Read") =>
    last'.value = ReadCall(last'.kind, Committed(last'.symbol))

C22_ReadersSeeCommitted == [][C22_Step]_vars

\* C22 witness: a reader returned the best ask of a book while a Submit on
\* the other book had filled the head of a queue and not yet removed it.
C22_Witness ==
  /\ last.op = "Read" /\ last.kind = "BestAsk" /\ last.value.ok
  /\ \E t \in Threads :
       /\ threads[t].pc = "pop"
       /\ threads[t].symbol # last.symbol

\* C31: a Submit or Cancel routed to a registered symbol changes neither the
\* queues nor a queued order of another book; the two orders of a trade
\* carry the symbol of the call; a Cancel naming another symbol than the one
\* the order rests under reports not found.
C31_Step ==
  (last' # last /\ last'.op \in {"Submit", "Resubmit", "Cancel"}
   /\ last'.symbol \in Symbols) =>
    /\ \A s \in Symbols \ {last'.symbol} :
         /\ bids'[s] = bids[s]
         /\ asks'[s] = asks[s]
         /\ \A id \in Queued(s) : orders'[id] = orders[id]
    /\ \A i \in DOMAIN last'.trades :
         /\ last'.trades[i].Symbol = last'.symbol
         /\ orders'[last'.trades[i].BuyOrderID].Symbol = last'.symbol
         /\ orders'[last'.trades[i].SellOrderID].Symbol = last'.symbol
    /\ (/\ last'.op = "Cancel"
        /\ ~ActiveResting(last'.symbol, last'.id)
        /\ \E s \in Symbols : ActiveResting(s, last'.id)) =>
         /\ last'.err = ErrNotFound
         /\ UNCHANGED <<orders, bids, asks>>

C31_BooksIndependent == [][C31_Step]_vars

\* C31 witness: both books hold an active order, and a Cancel that named
\* MSFT with the id of an order resting in AAPL was answered not found.
C31_Witness ==
  /\ last.op = "Cancel" /\ last.symbol = "MSFT" /\ last.err = ErrNotFound
  /\ ActiveResting("AAPL", last.id)
  /\ \E id \in Queued("MSFT") : IsActive(orders[id])

\* C32: between calls an order is FILLED exactly when its filled quantity is
\* its quantity.
C32_FilledIffComplete ==
  \A id \in DOMAIN orders :
    (orders[id].Status = StatusFilled) <=>
      (orders[id].Filled = orders[id].Quantity)

\* C32 witness: the last Submit traded one unit against a resting order of
\* two units that an earlier Submit had half filled, and left it FILLED.
C32_Witness ==
  /\ IsSubmit(last)
  /\ \E i \in DOMAIN last.trades :
       LET p == Passive(last.trades[i], last.id)
       IN /\ orders[p].Status = StatusFilled
          /\ orders[p].Quantity = 2
          /\ last.trades[i].Quantity = 1

\* The statuses a call can leave an order in, given the status it found:
\* forward along OPEN -> PARTIAL -> FILLED, OPEN or PARTIAL -> CANCELLED,
\* OPEN -> REJECTED.
Lifecycle(from) ==
  IF from = StatusOpen
    THEN {StatusOpen, StatusPartial, StatusFilled, StatusCancelled,
          StatusRejected}
  ELSE IF from = StatusPartial
    THEN {StatusPartial, StatusFilled, StatusCancelled}
  ELSE {from}

\* C33: with fresh orders and cancels only, a call moves the status of an
\* order forward along its lifecycle or leaves it; a FILLED, CANCELLED or
\* REJECTED order keeps its status and its filled quantity; only the order a
\* Submit rejects becomes REJECTED.
C33_Step ==
  /\ \A id \in DOMAIN orders :
       /\ orders'[id].Status \in Lifecycle(orders[id].Status)
       /\ orders[id].Status \in {StatusFilled, StatusCancelled, StatusRejected}
            => orders'[id].Filled = orders[id].Filled
       /\ orders'[id].Status = StatusRejected
            => orders[id].Status = StatusRejected
  /\ \A id \in DOMAIN orders' \ DOMAIN orders :
       /\ orders'[id].Status \in Lifecycle(StatusOpen)
       /\ (orders'[id].Status = StatusRejected) <=> (last'.err # NoError)

C33_StatusLifecycle == [][C33_Step]_vars

\* C33 witness: a Submit traded while a cancelled order was still in a queue
\* and a rejected order object existed.
C33_Witness ==
  /\ IsSubmit(last) /\ Len(last.trades) >= 1
  /\ \E id \in Queued("AAPL") : orders[id].Status = StatusCancelled
  /\ \E id \in DOMAIN orders : orders[id].Status = StatusRejected

\* C34: between calls an order that is OPEN or PARTIAL is in the queue of its
\* own side of its symbol's book, and an active order in a queue is a LIMIT
\* order with a remainder.
C34_ActiveIffResting ==
  /\ \A id \in DOMAIN orders :
       IsActive(orders[id]) => id \in Range(OwnQueue(orders[id]))
  /\ \A s \in Symbols :
       \A id \in Queued(s) :
         IsActive(orders[id]) =>
           /\ Remaining(orders[id]) > 0
           /\ orders[id].Type = Limit
           /\ orders[id].Symbol = s

\* C34 witness: the order of the last Submit traded, kept a remainder and
\* rests PARTIAL in its own queue next to an OPEN order.
C34_Witness ==
  /\ last.op = "Submit" /\ Len(last.trades) >= 1
  /\ orders[last.id].Status = StatusPartial
  /\ last.id \in Range(OwnQueue(orders[last.id]))
  /\ \E id \in Range(OwnQueue(orders[last.id])) :
       orders[id].Status = StatusOpen

\* C35: between calls every active bid of a book is priced strictly below
\* every active ask of that book, wherever the two sit in their queues.
C35_NeverCrossed ==
  \A s \in Symbols :
    \A b \in ActiveIn(bids[s]), a \in ActiveIn(asks[s]) :
      orders[b].Price < orders[a].Price

\* C35 witness: the head of the ask queue is inactive, an active ask sits
\* behind it and an active bid rests on the other side.
C35_Witness ==
  /\ Len(asks["AAPL"]) >= 2
  /\ ~IsActive(orders[asks["AAPL"][1]])
  /\ ActiveIn(asks["AAPL"]) # {}
  /\ ActiveIn(bids["AAPL"]) # {}

\* C36: every trade of an incoming LIMIT buy is priced at or below the buy's
\* limit, every trade of an incoming LIMIT sell at or above the sell's limit,
\* and every trade is priced at the limit of the resting order it was made
\* against.
C36_LimitRespected ==
  IsSubmit(last) =>
    \A i \in DOMAIN last.trades :
      LET t == last.trades[i]
          inc == orders[last.id]
          rest == orders[Passive(t, last.id)]
      IN /\ (inc.Type = Limit /\ inc.Side = Buy) => t.Price <= inc.Price
         /\ (inc.Type = Limit /\ inc.Side = Sell) => t.Price >= inc.Price
         /\ rest.Type = Limit /\ t.Price = rest.Price

\* C36 witness: a LIMIT order traded at a price strictly better than its
\* limit.
C36_Witness ==
  /\ IsSubmit(last) /\ orders[last.id].Type = Limit
  /\ \E i \in DOMAIN last.trades :
       IF orders[last.id].Side = Buy
         THEN last.trades[i].Price < orders[last.id].Price
         ELSE last.trades[i].Price > orders[last.id].Price

\* The remaining quantities of a set of orders, added up.
RECURSIVE RemainingOf(_)
RemainingOf(S) ==
  IF S = {} THEN 0
  ELSE LET x == CHOOSE y \in S : TRUE
       IN Remaining(orders[x]) + RemainingOf(S \ {x})

\* The active orders of the queue h that the order inc can trade with: all
\* of them for a MARKET order, those its limit reaches for a LIMIT order.
Eligible(ord, h, inc) ==
  {x \in Range(h) :
     /\ IsActive(ord[x])
     /\ \/ inc.Type = Market
        \/ inc.Side = Buy /\ inc.Price >= ord[x].Price
        \/ inc.Side = Sell /\ inc.Price <= ord[x].Price}

\* C37: a fresh LIMIT or MARKET order of quantity q is filled for min(q, the
\* remaining quantity of the active opposite orders eligible when the call
\* started), and it keeps a remainder only if no eligible active opposite
\* order is left.
C37_Step ==
  (/\ last'.op = "Submit" /\ last'.err = NoError
   /\ Len(orders') = Len(orders) + 1 /\ last'.id = Len(orders')
   /\ orders'[last'.id].Type \in {Limit, Market}) =>
    LET inc == orders'[last'.id]
        s == inc.Symbol
    IN /\ inc.Filled =
            min64(inc.Quantity,
                  RemainingOf(Eligible(orders, Opposite(s, inc.Side), inc)))
       /\ Remaining(inc) > 0 =>
            Eligible(orders',
                     IF inc.Side = Buy THEN asks'[s] ELSE bids'[s], inc) = {}

C37_MatchingMaximal == [][C37_Step]_vars

\* C37 witness: a LIMIT order took all that its limit reaches and rests with
\* a remainder while an active opposite order beyond its limit stays.
C37_Witness ==
  /\ last.op = "Submit" /\ orders[last.id].Type = Limit
  /\ orders[last.id].Filled > 0 /\ Remaining(orders[last.id]) > 0
  /\ ActiveIn(Opposite(last.symbol, orders[last.id].Side)) # {}

\* C38: between calls no order id occupies more than one slot of the bid and
\* ask queues of a book, and Depth counts as many active entries as there
\* are active orders in the queues.
C38_OneSlotPerOrder ==
  \A s \in Symbols :
    LET q == bids[s] \o asks[s]
    IN /\ \A i, j \in DOMAIN q : q[i] = q[j] => i = j
       /\ Depth(orders, bids[s]) = Cardinality(ActiveIn(bids[s]))
       /\ Depth(orders, asks[s]) = Cardinality(ActiveIn(asks[s]))

\* C39: a Spread call that reports present returns a strictly positive
\* value, the best ask minus the best bid of one book state.
C39_SpreadPositive ==
  (last.op = "Spread" /\ last.value.ok) => last.value.value > 0

\* C40: while a PrintBook or a Submit call is in progress, one of the calls
\* in progress can take its next step: no set of calls waits for the lock
\* forever.
C40_NoDeadlock ==
  (\E g \in Threads \cup Readers : threads[g].pc # "idle") => ENABLED Progress

====
